---- MODULE Spec2Model ----
(***************************************************************************)
(* mongo-db-demo: the Express web server (src/server.js) and the demo      *)
(* runner MongoDemo (src/unnamed/part_000), each as a state machine over   *)
(* the MongoDB collections it uses.                                        *)
(*                                                                         *)
(* Every `await` of a handler is a separate step, so the database calls of *)
(* concurrent requests and of the startup seeding interleave; the code     *)
(* between two awaits runs with the database call that precedes it.  Each  *)
(* single database call (findOne, insertOne, insertMany, updateOne,        *)
(* deleteOne, find, countDocuments) is one atomic step of the store.       *)
(***************************************************************************)
EXTENDS Integers, Sequences, FiniteSets, TLC

VARIABLES
    users,       \* server: documents of the users collection, in natural order
    posts,       \* server: documents of the posts collection, in natural order
    emailIndex,  \* server: the users collection has the unique index on email
    nextId,      \* server: the next ObjectId the driver generates
    handles,     \* server: the globals users/posts (line 16) are set
    seedPc,      \* server: position of the startup seed IIFE (lines 27-40)
    userList,    \* server: the seed IIFE's local userList
    mainPc,      \* server: position of mongoConnect().then(listen) (lines 174-178)
    reqs,        \* server: the HTTP requests, each with its handler's position
    db0,         \* server: what the database held when the process started
    variant,     \* demo: which of the two MongoDemo classes of part_000 runs
    demoPc,      \* demo: the statement of runDemo that runs next
    client,      \* demo: this.client
    collection,  \* demo: this.collection is set
    documents,   \* demo: the documents of the demo's collection
    indexes,     \* demo: the indexes of the demo's collection
    ran,         \* demo: the steps of runDemo entered so far, in order
    failed,      \* demo: the steps whose database call failed
    log,         \* demo: what was written to the console
    closes       \* demo: how often client.close() was called

serverVars == <<users, posts, emailIndex, nextId, handles, seedPc, userList,
                mainPc, reqs, db0>>

demoVars == <<variant, demoPc, client, collection, documents, indexes, ran,
              failed, log, closes>>

vars == <<serverVars, demoVars>>

(***************************************************************************)
(* Bounds of the model.                                                    *)
(***************************************************************************)
MaxLen == 2     \* longest email string a request carries
MaxReq == 1     \* HTTP requests received in one run
MaxPick == 2    \* a request names one of the first MaxPick documents
MaxPosters == 2 \* concurrent POST /api/users requests in RaceSpec

(***************************************************************************)
(* Strings: an email is a sequence of characters.                          *)
(***************************************************************************)
Chars == {"e", "E", " "}

Strings == UNION {[1..k -> Chars] : k \in 0..MaxLen}

\* String.prototype.toLowerCase, one character
LowerChar(c) == IF c = "E" THEN "e" ELSE c

ToLowerCase(s) == [i \in 1..Len(s) |-> LowerChar(s[i])]

RECURSIVE TrimStart(_)
TrimStart(s) ==
    IF s # <<>> /\ Head(s) = " " THEN TrimStart(Tail(s)) ELSE s

RECURSIVE TrimEnd(_)
TrimEnd(s) ==
    IF s # <<>> /\ s[Len(s)] = " " THEN TrimEnd(SubSeq(s, 1, Len(s) - 1)) ELSE s

\* String.prototype.trim
Trim(s) == TrimEnd(TrimStart(s))

\* faulty variant: the email is trimmed and its case kept
NormalizeKeepsCase(s) == Trim(s)

\* server.js line 69: email.trim().toLowerCase()
Normalize(s) == ToLowerCase(Trim(s))

(***************************************************************************)
(* Values.                                                                 *)
(***************************************************************************)
Undefined == "undefined"

\* the userId of a seeded post whose user is missing: userList[i]?._id
NoRef == 0

\* the `user` of a joined post when usersList.find matches nothing
NoUser == [_id |-> NoRef, name |-> Undefined, email |-> <<>>]

\* an identifier as a request carries it
Hex(i) == [tag |-> "hex", val |-> i]
MalformedId == [tag |-> "malformed", val |-> NoRef]
UndefinedId == [tag |-> "undefined", val |-> NoRef]

\* an email as a request body carries it: a string, absent, or not a string
Str(s) == [tag |-> "string", val |-> s]
UndefinedEmail == [tag |-> "undefined", val |-> <<>>]
NonStringEmail == [tag |-> "other", val |-> <<>>]

\* the four sample posts of the startup seed
SampleTitles == <<"Hello from Emma", "Liam on the Beach", "Sophia's Cooking", "Noah's Hike">>
SampleBodies == <<"Emma post content", "Surfing diary", "Today I made pasta", "Reached mountain top!">>
NumSamples == Len(SampleTitles)

\* emails of the users the demo inserts (one letter each)
DemoEmails == << <<"e">>, <<"l">>, <<"s">>, <<"n">> >>
DemoNames == <<"Emma Wilson", "Liam Carter", "Sophia Patel", "Noah Kim">>

(***************************************************************************)
(* Collections.                                                            *)
(***************************************************************************)
Ids(coll) == {coll[i]._id : i \in 1..Len(coll)}

Has(coll, id) == id \in Ids(coll)

\* collection.findOne({ email })
HasEmail(coll, e) == \E i \in 1..Len(coll) : coll[i].email = e

\* faulty variant: deleteOne with an empty filter removes the first document
WithoutFirst(coll, id) == Tail(coll)

Without(coll, id) == SelectSeq(coll, LAMBDA d : d._id # id)

\* usersList.find(u => u._id && p.userId && u._id.equals(p.userId))
JoinUser(usersList, p) ==
    IF p.userId # NoRef /\ \E i \in 1..Len(usersList) : usersList[i]._id = p.userId
    THEN usersList[CHOOSE i \in 1..Len(usersList) :
                      /\ usersList[i]._id = p.userId
                      /\ \A j \in 1..(i - 1) : usersList[j]._id # p.userId]
    ELSE NoUser

(***************************************************************************)
(* The web server: the state when the process starts.  The database is the *)
(* one a demo run left: up to four users with distinct, lower-case emails, *)
(* the unique index there if createIndexes had succeeded, and no post or a *)
(* post left by an earlier run of the server.                              *)
(***************************************************************************)
\* the demo runner is another process: it is not running
DemoOff ==
    /\ variant = 1
    /\ demoPc = "off"
    /\ client = "null"
    /\ collection = FALSE
    /\ documents = <<>>
    /\ indexes = {}
    /\ ran = <<>>
    /\ failed = {}
    /\ log = <<>>
    /\ closes = 0

IdleReq ==
    [kind |-> "none", pc |-> "idle", name |-> Undefined, email |-> UndefinedEmail,
     userId |-> UndefinedId, postId |-> UndefinedId, title |-> Undefined,
     body |-> Undefined, lemail |-> <<>>, luser |-> NoRef, list |-> <<>>,
     status |-> 0, rid |-> NoRef]

\* the process starts and will receive up to `count` requests
Started(count) ==
    \E n \in 0..NumSamples, old \in BOOLEAN, idx \in BOOLEAN :
        /\ users = [i \in 1..n |-> [_id |-> i, name |-> DemoNames[i], email |-> DemoEmails[i]]]
        /\ posts = IF old
                   THEN <<[_id |-> n + 1, title |-> "Old post", body |-> "old",
                           userId |-> IF n > 0 THEN 1 ELSE NoRef]>>
                   ELSE <<>>
        /\ nextId = n + 2
        /\ emailIndex = idx
        /\ handles = FALSE
        /\ seedPc = "connect"
        /\ userList = <<>>
        /\ mainPc = "connect"
        /\ reqs = [r \in 1..count |-> IdleReq]
        /\ db0 = [users |-> n, posts |-> IF old THEN 1 ELSE 0]
        /\ DemoOff

Init == Started(MaxReq)

(***************************************************************************)
(* Startup: the seed IIFE and mongoConnect().then(listen) each connect on  *)
(* their own and run concurrently.                                         *)
(***************************************************************************)
\* lines 18-24 as called from line 28
SeedConnect ==
    /\ seedPc = "connect"
    /\ seedPc' = "count"
    /\ handles' = TRUE
    /\ UNCHANGED <<users, posts, emailIndex, nextId, userList, mainPc, reqs, db0, demoVars>>

\* line 28: client.connect() rejects and the IIFE ends, its rejection unhandled
\* (the process then goes on without seeding, or exits: no further step)
SeedConnectFails ==
    /\ seedPc = "connect"
    /\ seedPc' = "failed"
    /\ UNCHANGED <<users, posts, emailIndex, nextId, handles, userList, mainPc, reqs, db0, demoVars>>

\* line 29: posts.countDocuments() === 0
SeedCount ==
    /\ seedPc = "count"
    /\ seedPc' = IF Len(posts) = 0 THEN "find" ELSE "done"
    /\ UNCHANGED <<users, posts, emailIndex, nextId, handles, userList, mainPc, reqs, db0, demoVars>>

\* lines 30-31: users.find({}).toArray(); if (userList.length)
SeedFind ==
    /\ seedPc = "find"
    /\ userList' = users
    /\ seedPc' = IF Len(users) > 0 THEN "insert" ELSE "done"
    /\ UNCHANGED <<users, posts, emailIndex, nextId, handles, mainPc, reqs, db0, demoVars>>

\* faulty variant: every sample post references the first user
SamplePostsOfFirstUser(list, first) ==
    [i \in 1..NumSamples |->
        [_id |-> first + i - 1, title |-> SampleTitles[i], body |-> SampleBodies[i],
         userId |-> list[1]._id]]

\* lines 33-36: the four documents handed to insertMany
SamplePosts(list, first) ==
    [i \in 1..NumSamples |->
        [_id |-> first + i - 1, title |-> SampleTitles[i], body |-> SampleBodies[i],
         userId |-> IF i <= Len(list) THEN list[i]._id ELSE NoRef]]

\* lines 32-37: posts.insertMany([...])
SeedInsert ==
    /\ seedPc = "insert"
    /\ posts' = posts \o SamplePosts(userList, nextId)
    /\ nextId' = nextId + NumSamples
    /\ seedPc' = "done"
    /\ UNCHANGED <<users, emailIndex, handles, userList, mainPc, reqs, db0, demoVars>>

\* lines 174-177: mongoConnect() resolves, then app.listen
MainConnect ==
    /\ mainPc = "connect"
    /\ mainPc' = "listening"
    /\ handles' = TRUE
    /\ UNCHANGED <<users, posts, emailIndex, nextId, seedPc, userList, reqs, db0, demoVars>>

\* line 174: mongoConnect() rejects; there is no catch and listen is never called
MainConnectFails ==
    /\ mainPc = "connect"
    /\ mainPc' = "failed"
    /\ UNCHANGED <<users, posts, emailIndex, nextId, handles, seedPc, userList, reqs, db0, demoVars>>

(***************************************************************************)
(* Requests.                                                               *)
(***************************************************************************)
Min(a, b) == IF a < b THEN a ELSE b

\* a well-formed identifier that no document has or will have in this run
GhostId == nextId + MaxReq + NumSamples

UserIdInputs ==
    {Hex(users[i]._id) : i \in 1..Min(Len(users), MaxPick)}
        \cup {Hex(GhostId), MalformedId, UndefinedId}

PostIdInputs ==
    {Hex(posts[i]._id) : i \in 1..Min(Len(posts), MaxPick)}
        \cup {Hex(GhostId), MalformedId}

EmailInputs == {Str(s) : s \in Strings} \cup {UndefinedEmail, NonStringEmail}

\* !x of a request field
Falsy(x) == x = Undefined \/ x = ""

\* faulty variant: app.listen is called without waiting for mongoConnect
AcceptsAtOnce(r) ==
    /\ mainPc # "off"
    /\ reqs[r].pc = "idle"
    /\ \A q \in 1..(r - 1) : reqs[q].pc # "idle"

\* the server accepts request r: express calls handlers once listen has run
Accepts(r) ==
    /\ mainPc = "listening"
    /\ reqs[r].pc = "idle"
    /\ \A q \in 1..(r - 1) : reqs[q].pc # "idle"

Running(r, kind, pc) ==
    /\ mainPc = "listening"
    /\ reqs[r].kind = kind
    /\ reqs[r].pc = pc

\* res.status(st).json(...)
Respond(rec, st) == [rec EXCEPT !.pc = "done", !.status = st]

----------------------------------------------------------------------------
\* lines 65-70: POST /api/users up to the first await
PostUsersReceive(r) ==
    /\ Accepts(r)
    /\ \E email \in EmailInputs :
        LET rec == [IdleReq EXCEPT !.kind = "postUsers", !.name = "New User", !.email = email]
            e == IF email.tag = "undefined" THEN Str(<<>>) ELSE email
        IN  reqs' = [reqs EXCEPT ![r] =
                IF e.tag # "string"
                THEN Respond(rec, 500)
                ELSE [rec EXCEPT !.pc = "findOne", !.lemail = Normalize(e.val)]]
    /\ UNCHANGED <<users, posts, emailIndex, nextId, handles, seedPc, userList, mainPc, db0, demoVars>>

\* faulty variant: the lookup's result is ignored
PostUsersFindOneIgnored(r) ==
    /\ Running(r, "postUsers", "findOne")
    /\ reqs' = [reqs EXCEPT ![r] = [reqs[r] EXCEPT !.pc = "insertOne"]]
    /\ UNCHANGED <<users, posts, emailIndex, nextId, handles, seedPc, userList, mainPc, db0, demoVars>>

\* lines 70-92: users.findOne({ email }) and what follows it
PostUsersFindOne(r) ==
    /\ Running(r, "postUsers", "findOne")
    /\ reqs' = [reqs EXCEPT ![r] =
            IF HasEmail(users, reqs[r].lemail)
            THEN Respond(reqs[r], 400)
            ELSE [reqs[r] EXCEPT !.pc = "insertOne"]]
    /\ UNCHANGED <<users, posts, emailIndex, nextId, handles, seedPc, userList, mainPc, db0, demoVars>>

\* lines 93-98: users.insertOne(user); a duplicate key error lands in the catch
PostUsersInsertOne(r) ==
    /\ Running(r, "postUsers", "insertOne")
    /\ IF emailIndex /\ HasEmail(users, reqs[r].lemail)
       THEN /\ reqs' = [reqs EXCEPT ![r] = Respond(reqs[r], 500)]
            /\ UNCHANGED <<users, nextId>>
       ELSE /\ users' = Append(users, [_id |-> nextId, name |-> reqs[r].name,
                                       email |-> reqs[r].lemail])
            /\ nextId' = nextId + 1
            /\ reqs' = [reqs EXCEPT ![r] = [Respond(reqs[r], 200) EXCEPT !.rid = nextId]]
    /\ UNCHANGED <<posts, emailIndex, handles, seedPc, userList, mainPc, db0, demoVars>>

----------------------------------------------------------------------------
\* lines 102-106: POST /api/posts up to the first await
PostPostsReceive(r) ==
    /\ Accepts(r)
    /\ \E userId \in UserIdInputs, title \in {"Title", Undefined}, body \in {"Body", ""} :
        LET rec == [IdleReq EXCEPT !.kind = "postPosts", !.userId = userId,
                                   !.title = title, !.body = body]
        IN  reqs' = [reqs EXCEPT ![r] =
                IF userId.tag = "undefined" \/ Falsy(title) \/ Falsy(body)
                THEN Respond(rec, 400)
                ELSE IF userId.tag # "hex"
                     THEN Respond(rec, 500)
                     ELSE [rec EXCEPT !.pc = "findOne"]]
    /\ UNCHANGED <<users, posts, emailIndex, nextId, handles, seedPc, userList, mainPc, db0, demoVars>>

\* lines 106-107: users.findOne({ _id })
PostPostsFindOne(r) ==
    /\ Running(r, "postPosts", "findOne")
    /\ reqs' = [reqs EXCEPT ![r] =
            IF Has(users, reqs[r].userId.val)
            THEN [reqs[r] EXCEPT !.pc = "insertOne", !.luser = reqs[r].userId.val]
            ELSE Respond(reqs[r], 404)]
    /\ UNCHANGED <<users, posts, emailIndex, nextId, handles, seedPc, userList, mainPc, db0, demoVars>>

\* faulty variant: the post is inserted without its userId
PostPostsInsertOneUnassigned(r) ==
    /\ Running(r, "postPosts", "insertOne")
    /\ posts' = Append(posts, [_id |-> nextId, title |-> reqs[r].title,
                               body |-> reqs[r].body, userId |-> NoRef])
    /\ nextId' = nextId + 1
    /\ reqs' = [reqs EXCEPT ![r] = [Respond(reqs[r], 200) EXCEPT !.rid = nextId]]
    /\ UNCHANGED <<users, emailIndex, handles, seedPc, userList, mainPc, db0, demoVars>>

\* lines 108-109: posts.insertOne({ userId: user._id, title, body })
PostPostsInsertOne(r) ==
    /\ Running(r, "postPosts", "insertOne")
    /\ posts' = Append(posts, [_id |-> nextId, title |-> reqs[r].title,
                               body |-> reqs[r].body, userId |-> reqs[r].luser])
    /\ nextId' = nextId + 1
    /\ reqs' = [reqs EXCEPT ![r] = [Respond(reqs[r], 200) EXCEPT !.rid = nextId]]
    /\ UNCHANGED <<users, emailIndex, handles, seedPc, userList, mainPc, db0, demoVars>>

----------------------------------------------------------------------------
\* lines 115-117, 120-122: DELETE /api/posts/:id up to the await
DeletePostReceive(r) ==
    /\ Accepts(r)
    /\ \E postId \in PostIdInputs :
        LET rec == [IdleReq EXCEPT !.kind = "deletePost", !.postId = postId]
        IN  reqs' = [reqs EXCEPT ![r] =
                IF postId.tag # "hex"
                THEN Respond(rec, 400)
                ELSE [rec EXCEPT !.pc = "deleteOne"]]
    /\ UNCHANGED <<users, posts, emailIndex, nextId, handles, seedPc, userList, mainPc, db0, demoVars>>

\* lines 117-119: posts.deleteOne({ _id })
DeletePostDeleteOne(r) ==
    /\ Running(r, "deletePost", "deleteOne")
    /\ IF Has(posts, reqs[r].postId.val)
       THEN /\ posts' = Without(posts, reqs[r].postId.val)
            /\ reqs' = [reqs EXCEPT ![r] = Respond(reqs[r], 200)]
       ELSE /\ posts' = posts
            /\ reqs' = [reqs EXCEPT ![r] = Respond(reqs[r], 404)]
    /\ UNCHANGED <<users, emailIndex, nextId, handles, seedPc, userList, mainPc, db0, demoVars>>

----------------------------------------------------------------------------
\* lines 125-129, 137-139: PATCH /api/posts/:id/assign up to the first await
AssignReceive(r) ==
    /\ Accepts(r)
    /\ \E postId \in PostIdInputs, userId \in UserIdInputs :
        LET rec == [IdleReq EXCEPT !.kind = "assign", !.postId = postId, !.userId = userId]
        IN  reqs' = [reqs EXCEPT ![r] =
                IF userId.tag # "hex"
                THEN Respond(rec, 400)
                ELSE [rec EXCEPT !.pc = "findOne"]]
    /\ UNCHANGED <<users, posts, emailIndex, nextId, handles, seedPc, userList, mainPc, db0, demoVars>>

\* lines 129-132: users.findOne({ _id }), then the post's identifier is parsed
AssignFindOne(r) ==
    /\ Running(r, "assign", "findOne")
    /\ reqs' = [reqs EXCEPT ![r] =
            IF ~Has(users, reqs[r].userId.val)
            THEN Respond(reqs[r], 404)
            ELSE IF reqs[r].postId.tag # "hex"
                 THEN Respond(reqs[r], 400)
                 ELSE [reqs[r] EXCEPT !.pc = "updateOne", !.luser = reqs[r].userId.val]]
    /\ UNCHANGED <<users, posts, emailIndex, nextId, handles, seedPc, userList, mainPc, db0, demoVars>>

\* faulty variant: updateMany with an empty filter
SetUserIdOfAll(coll, id, uid) ==
    [i \in 1..Len(coll) |-> [coll[i] EXCEPT !.userId = uid]]

\* { $set: { userId } } applied to the post with this identifier
SetUserId(coll, id, uid) ==
    [i \in 1..Len(coll) |->
        IF coll[i]._id = id THEN [coll[i] EXCEPT !.userId = uid] ELSE coll[i]]

\* faulty variant: success is decided by matchedCount
AssignUpdateOneByMatch(r) ==
    /\ Running(r, "assign", "updateOne")
    /\ posts' = SetUserId(posts, reqs[r].postId.val, reqs[r].luser)
    /\ reqs' = [reqs EXCEPT ![r] =
            IF Has(posts, reqs[r].postId.val)
            THEN Respond(reqs[r], 200) ELSE Respond(reqs[r], 404)]
    /\ UNCHANGED <<users, emailIndex, nextId, handles, seedPc, userList, mainPc, db0, demoVars>>

\* lines 131-136: posts.updateOne(...); modifiedCount is 1 when the post changed
AssignUpdateOne(r) ==
    /\ Running(r, "assign", "updateOne")
    /\ posts' = SetUserId(posts, reqs[r].postId.val, reqs[r].luser)
    /\ reqs' = [reqs EXCEPT ![r] =
            IF posts' # posts THEN Respond(reqs[r], 200) ELSE Respond(reqs[r], 404)]
    /\ UNCHANGED <<users, emailIndex, nextId, handles, seedPc, userList, mainPc, db0, demoVars>>

----------------------------------------------------------------------------
\* line 54: GET /api/posts
GetPostsReceive(r) ==
    /\ Accepts(r)
    /\ reqs' = [reqs EXCEPT ![r] = [IdleReq EXCEPT !.kind = "getPosts", !.pc = "findPosts"]]
    /\ UNCHANGED <<users, posts, emailIndex, nextId, handles, seedPc, userList, mainPc, db0, demoVars>>

\* line 55: posts.find({}).toArray()
GetPostsFindPosts(r) ==
    /\ Running(r, "getPosts", "findPosts")
    /\ reqs' = [reqs EXCEPT ![r] = [reqs[r] EXCEPT !.pc = "findUsers", !.list = posts]]
    /\ UNCHANGED <<users, posts, emailIndex, nextId, handles, seedPc, userList, mainPc, db0, demoVars>>

\* lines 57-60: each post with its user
Joined(postsList, usersList) ==
    [i \in 1..Len(postsList) |->
        [post |-> postsList[i], user |-> JoinUser(usersList, postsList[i])]]

\* lines 56-61: users.find({}).toArray(), the join and res.json
GetPostsFindUsers(r) ==
    /\ Running(r, "getPosts", "findUsers")
    /\ reqs' = [reqs EXCEPT ![r] =
            [Respond(reqs[r], 200) EXCEPT !.list = Joined(reqs[r].list, users)]]
    /\ UNCHANGED <<users, posts, emailIndex, nextId, handles, seedPc, userList, mainPc, db0, demoVars>>

----------------------------------------------------------------------------
Startup ==
    \/ SeedConnect
    \/ SeedConnectFails
    \/ SeedCount
    \/ SeedFind
    \/ SeedInsert
    \/ MainConnect
    \/ MainConnectFails

Request(r) ==
    \/ PostUsersReceive(r)
    \/ PostUsersFindOne(r)
    \/ PostUsersInsertOne(r)
    \/ PostPostsReceive(r)
    \/ PostPostsFindOne(r)
    \/ PostPostsInsertOne(r)
    \/ DeletePostReceive(r)
    \/ DeletePostDeleteOne(r)
    \/ AssignReceive(r)
    \/ AssignFindOne(r)
    \/ AssignUpdateOne(r)
    \/ GetPostsReceive(r)
    \/ GetPostsFindPosts(r)
    \/ GetPostsFindUsers(r)

Next == Startup \/ \E r \in DOMAIN reqs : Request(r)

Spec == Init /\ [][Next]_vars

(***************************************************************************)
(* The same server receiving only POST /api/users, MaxPosters of them.     *)
(***************************************************************************)
RaceInit == Started(MaxPosters)

PostUsers(r) ==
    \/ PostUsersReceive(r)
    \/ PostUsersFindOne(r)
    \/ PostUsersInsertOne(r)

RaceNext == Startup \/ \E r \in DOMAIN reqs : PostUsers(r)

RaceSpec == RaceInit /\ [][RaceNext]_vars

(***************************************************************************)
(* The same server receiving only PATCH /api/posts/:id/assign, two of them.*)
(***************************************************************************)
AssignInit == Started(2)

Assign(r) ==
    \/ AssignReceive(r)
    \/ AssignFindOne(r)
    \/ AssignUpdateOne(r)

AssignNext == Startup \/ \E r \in DOMAIN reqs : Assign(r)

AssignSpec == AssignInit /\ [][AssignNext]_vars

(***************************************************************************)
(* The demo runner: MongoDemo.runDemo of src/unnamed/part_000.  The file   *)
(* holds the class twice (lines 22-366 and 395-656); `variant` says which  *)
(* one runs.  The run is sequential, so each method called by runDemo is   *)
(* one step; a database call of the step may fail, and the calls the step  *)
(* made before it have taken effect.  While this.collection is null a call *)
(* on it throws before anything reaches the database.                      *)
(***************************************************************************)
\* the statements of runDemo's try block, in order (lines 344-357, 635-647)
Sequence(v) ==
    IF v = 1
    THEN <<"connect", "clear", "createIndexes", "insert", "read", "update",
           "aggregate", "geo", "delete", "count">>
    ELSE <<"connect", "clear", "createIndexes", "insert", "read", "update",
           "aggregate", "delete", "count">>

\* the statement after step s when s returns normally
After(v, s) ==
    LET seq == Sequence(v)
        k == CHOOSE i \in 1..Len(seq) : seq[i] = s
    IN  IF k = Len(seq) THEN "finally" ELSE seq[k + 1]

\* the indexes createIndexes asks for, in order (lines 56-59, 433-436)
IndexNames == <<"email", "age", "address.city", "location">>

\* the documents insertDocuments inserts (lines 74-144, 453-523)
Doc(email, age) == [email |-> email, age |-> age, tag |-> "none"]

SingleUser(v) ==
    IF v = 1 THEN Doc("john@example.com", 30) ELSE Doc("emma.wilson@example.com", 29)

MultipleUsers(v) ==
    IF v = 1
    THEN <<Doc("jane@example.com", 25), Doc("bob@example.com", 35),
           Doc("alice@example.com", 28)>>
    ELSE <<Doc("liam.carter@example.com", 24), Doc("sophia.patel@example.com", 34),
           Doc("noah.kim@example.com", 27)>>

\* errorLog / success of the console helpers, by the step that writes
ErrorOf(s) == [level |-> "error", step |-> s]
SuccessOf(s) == [level |-> "success", step |-> s]

\* a step of runDemo starts
Enters(s) ==
    /\ demoPc = s
    /\ ran' = Append(ran, s)

\* faulty variant: the catch block does not rethrow
RethrowsNothing(s) ==
    /\ failed' = failed \cup {s}
    /\ log' = Append(log, ErrorOf(s))
    /\ demoPc' = After(variant, s)

\* the step's catch block rethrows (or the statement has none): runDemo's catch is next
Rethrows(s) ==
    /\ failed' = failed \cup {s}
    /\ log' = Append(log, ErrorOf(s))
    /\ demoPc' = "catch"

\* faulty variant: the catch block rethrows
LogsAndThrows(s) ==
    /\ failed' = failed \cup {s}
    /\ log' = Append(log, ErrorOf(s))
    /\ demoPc' = "catch"

\* the step's catch block logs and returns
LogsAndReturns(s) ==
    /\ failed' = failed \cup {s}
    /\ log' = Append(log, ErrorOf(s))
    /\ demoPc' = After(variant, s)

Returns(s) ==
    /\ failed' = failed
    /\ log' = Append(log, SuccessOf(s))
    /\ demoPc' = After(variant, s)

\* lines 29-44, 402-419: connect; client.connect() may reject, and before it
\* new MongoClient(MONGODB_URI) may throw, which leaves this.client null
Connect ==
    /\ Enters("connect")
    /\ \/ /\ client' = "connected"
          /\ collection' = TRUE
          /\ Returns("connect")
       \/ /\ client' = "created"
          /\ collection' = collection
          /\ Rethrows("connect")
       \/ /\ client' = client
          /\ collection' = collection
          /\ Rethrows("connect")
    /\ UNCHANGED <<variant, documents, indexes, closes, serverVars>>

\* lines 346-347, 637-638: this.collection.deleteMany({}) in runDemo's own try
Clear ==
    /\ Enters("clear")
    /\ \/ collection /\ documents' = <<>> /\ Returns("clear")
       \/ documents' = documents /\ Rethrows("clear")
    /\ UNCHANGED <<variant, client, collection, indexes, closes, serverVars>>

\* lines 53-69, 428-446: createIndexes; k of the four indexes are created
CreateIndexes ==
    /\ Enters("createIndexes")
    /\ \E k \in 0..Len(IndexNames) :
        /\ k > 0 => collection
        /\ indexes' = indexes \cup {IndexNames[i] : i \in 1..k}
        /\ IF k = Len(IndexNames)
           THEN Returns("createIndexes")
           ELSE LogsAndReturns("createIndexes")
    /\ UNCHANGED <<variant, client, collection, documents, closes, serverVars>>

\* lines 71-159, 448-538: insertDocuments; insertOne, then insertMany
InsertDocuments ==
    /\ Enters("insert")
    /\ \/ /\ collection
          /\ documents' = documents \o <<SingleUser(variant)>> \o MultipleUsers(variant)
          /\ Returns("insert")
       \/ /\ collection
          /\ documents' = documents \o <<SingleUser(variant)>>
          /\ Rethrows("insert")
       \/ /\ documents' = documents
          /\ Rethrows("insert")
    /\ UNCHANGED <<variant, client, collection, indexes, closes, serverVars>>

\* lines 161-188, 540-561: readDocuments
ReadDocuments ==
    /\ Enters("read")
    /\ (collection /\ Returns("read")) \/ Rethrows("read")
    /\ UNCHANGED <<variant, client, collection, documents, indexes, closes, serverVars>>

\* updateOne({ email }, { $set: { age } })
SetAge(coll, email, age) ==
    LET hit == {i \in 1..Len(coll) : coll[i].email = email}
    IN  [i \in 1..Len(coll) |->
            IF hit # {} /\ i = CHOOSE m \in hit : \A o \in hit : m <= o
            THEN [coll[i] EXCEPT !.age = age]
            ELSE coll[i]]

\* updateMany({ age: { $lt: 30 } }, { $set: { category | group } })
TagYoung(coll) ==
    [i \in 1..Len(coll) |->
        IF coll[i].age < 30 THEN [coll[i] EXCEPT !.tag = "young"] ELSE coll[i]]

\* updateOne({ email: 'newuser@example.com' }, { $set: ... }, { upsert: true })
Upsert(coll) ==
    IF \E i \in 1..Len(coll) : coll[i].email = "newuser@example.com"
    THEN SetAge(coll, "newuser@example.com", 22)
    ELSE Append(coll, Doc("newuser@example.com", 22))

\* the database calls of updateDocuments, applied in order (lines 193-239, 568-584)
Updates(v, coll, calls) ==
    LET one == IF calls >= 1
               THEN SetAge(coll, SingleUser(v).email, SingleUser(v).age + 1)
               ELSE coll
        two == IF calls >= 2 THEN TagYoung(one) ELSE one
    IN  IF v = 1 /\ calls >= 3 THEN Upsert(two) ELSE two

UpdateCalls(v) == IF v = 1 THEN 3 ELSE 2

\* lines 190-250, 563-591: updateDocuments; k of its calls succeed
UpdateDocuments ==
    /\ Enters("update")
    /\ \E k \in 0..UpdateCalls(variant) :
        /\ k > 0 => collection
        /\ documents' = Updates(variant, documents, k)
        /\ IF k = UpdateCalls(variant) THEN Returns("update") ELSE Rethrows("update")
    /\ UNCHANGED <<variant, client, collection, indexes, closes, serverVars>>

\* lines 252-281, 593-617: runAggregation
RunAggregation ==
    /\ Enters("aggregate")
    /\ (collection /\ Returns("aggregate")) \/ LogsAndReturns("aggregate")
    /\ UNCHANGED <<variant, client, collection, documents, indexes, closes, serverVars>>

\* lines 283-326: runGeospatialQueries; $near needs the 2dsphere index
RunGeospatialQueries ==
    /\ Enters("geo")
    /\ \/ collection /\ "location" \in indexes /\ Returns("geo")
       \/ LogsAndReturns("geo")
    /\ UNCHANGED <<variant, client, collection, documents, indexes, closes, serverVars>>

\* the database calls of deleteDocuments, applied in order (lines 331-332, 624)
Deletes(v, coll, calls) ==
    LET one == IF v = 1 /\ calls >= 1
               THEN SelectSeq(coll, LAMBDA d : d.email # "newuser@example.com")
               ELSE coll
    IN  IF (v = 1 /\ calls >= 2) \/ (v = 2 /\ calls >= 1)
        THEN SelectSeq(one, LAMBDA d : d.tag # "young")
        ELSE one

DeleteCalls(v) == IF v = 1 THEN 2 ELSE 1

\* lines 328-339, 619-629: deleteDocuments; k of its calls succeed
DeleteDocuments ==
    /\ Enters("delete")
    /\ \E k \in 0..DeleteCalls(variant) :
        /\ k > 0 => collection
        /\ documents' = Deletes(variant, documents, k)
        /\ IF k = DeleteCalls(variant) THEN Returns("delete") ELSE LogsAndReturns("delete")
    /\ UNCHANGED <<variant, client, collection, indexes, closes, serverVars>>

\* lines 357-359, 647-649: countDocuments and the two success messages
FinalCount ==
    /\ Enters("count")
    /\ \/ /\ collection
          /\ failed' = failed
          /\ log' = log \o <<SuccessOf("count"), SuccessOf("runDemo")>>
          /\ demoPc' = "finally"
       \/ Rethrows("count")
    /\ UNCHANGED <<variant, client, collection, documents, indexes, closes, serverVars>>

\* lines 360-361, 650-651: runDemo's catch
Catch ==
    /\ demoPc = "catch"
    /\ log' = Append(log, ErrorOf("runDemo"))
    /\ demoPc' = "finally"
    /\ UNCHANGED <<variant, client, collection, documents, indexes, ran, failed,
                   closes, serverVars>>

\* faulty variant: disconnect is the last statement of the try block
DisconnectOnSuccess ==
    /\ demoPc = "finally"
    /\ IF client # "null" /\ \E i \in DOMAIN log : log[i] = SuccessOf("runDemo")
       THEN /\ client' = "closed"
            /\ closes' = closes + 1
            /\ log' = Append(log, SuccessOf("disconnect"))
       ELSE UNCHANGED <<client, closes, log>>
    /\ demoPc' = "done"
    /\ UNCHANGED <<variant, collection, documents, indexes, ran, failed, serverVars>>

\* lines 362-364 and 46-51 (652-654 and 421-426): finally, disconnect
Disconnect ==
    /\ demoPc = "finally"
    /\ IF client # "null"
       THEN /\ client' = "closed"
            /\ closes' = closes + 1
            /\ log' = Append(log, SuccessOf("disconnect"))
       ELSE UNCHANGED <<client, closes, log>>
    /\ demoPc' = "done"
    /\ UNCHANGED <<variant, collection, documents, indexes, ran, failed, serverVars>>

\* lines 22-27, 369-370: new MongoDemo(); demo.runDemo(), against a collection
\* that is empty or holds what an earlier run left
DemoInit ==
    /\ variant \in {1, 2}
    /\ demoPc = "connect"
    /\ client = "null"
    /\ collection = FALSE
    /\ \E k \in 0..UpdateCalls(variant), full \in BOOLEAN :
        documents = IF full
                    THEN Updates(variant, <<SingleUser(variant)>> \o MultipleUsers(variant), k)
                    ELSE <<>>
    /\ indexes \in {{}, {IndexNames[i] : i \in 1..Len(IndexNames)}}
    /\ ran = <<>>
    /\ failed = {}
    /\ log = <<>>
    /\ closes = 0
    /\ users = <<>>
    /\ posts = <<>>
    /\ emailIndex = FALSE
    /\ nextId = 1
    /\ handles = FALSE
    /\ seedPc = "off"
    /\ userList = <<>>
    /\ mainPc = "off"
    /\ reqs = <<>>
    /\ db0 = [users |-> 0, posts |-> 0]

DemoNext ==
    \/ Connect
    \/ Clear
    \/ CreateIndexes
    \/ InsertDocuments
    \/ ReadDocuments
    \/ UpdateDocuments
    \/ RunAggregation
    \/ RunGeospatialQueries
    \/ DeleteDocuments
    \/ FinalCount
    \/ Catch
    \/ Disconnect

DemoSpec == DemoInit /\ [][DemoNext]_vars

(***************************************************************************)
(* Either entry point is started: node server.js, or the demo script.      *)
(***************************************************************************)
EntryInit == Init \/ DemoInit

EntryNext == Next \/ DemoNext

EntrySpec == EntryInit /\ [][EntryNext]_vars

(***************************************************************************)
(* Properties of the web server.                                           *)
(***************************************************************************)
\* request r takes a step of its handler
Steps(r) == reqs'[r] # reqs[r]

\* the email POST /api/users works with: the body's email, '' when absent
Given(rec) == rec.email.val

\* a trimmed, lower-cased: what "normalized" means
Normal(s) == ToLowerCase(Trim(s))

\* some user document holds email e
Held(e) == \E i \in 1..Len(users) : users[i].email = e

IsClientError(st) == st >= 400 /\ st <= 499

\* C1: POST /api/users with an email whose normalized form no user document
\* holds succeeds: no step of the handler answers an error, and the insert adds
\* exactly one user document, whose email is the normalized form and whose
\* identifier is the one returned.
C1_FreshEmailIsInserted ==
    [][\A r \in DOMAIN reqs :
        (/\ Steps(r)
         /\ reqs'[r].kind = "postUsers"
         /\ reqs'[r].email.tag # "other"
         /\ ~Held(Normal(Given(reqs'[r]))))
        => /\ reqs[r].pc = "idle" => reqs'[r].pc = "findOne" /\ users' = users
           /\ reqs[r].pc = "findOne" => reqs'[r].pc = "insertOne" /\ users' = users
           /\ reqs[r].pc = "insertOne" =>
                /\ reqs'[r].pc = "done"
                /\ reqs'[r].status = 200
                /\ Len(users') = Len(users) + 1
                /\ SubSeq(users', 1, Len(users)) = users
                /\ users'[Len(users')].email = Normal(Given(reqs[r]))
                /\ users'[Len(users')]._id = reqs'[r].rid
                /\ reqs'[r].rid \notin Ids(users)
    ]_vars

\* C1 witness: a POST whose email needed normalizing was answered 200 and the
\* identifier returned is that of a document with the normalized email.
C1_Witness ==
    \E r \in DOMAIN reqs :
        /\ reqs[r].kind = "postUsers"
        /\ reqs[r].pc = "done"
        /\ reqs[r].status = 200
        /\ Given(reqs[r]) # Normal(Given(reqs[r]))
        /\ \E i \in 1..Len(users) :
            /\ users[i]._id = reqs[r].rid
            /\ users[i].email = Normal(Given(reqs[r]))

\* C2: POST /api/users with an email that, compared case-insensitively and
\* without surrounding whitespace, equals the email of a user document already
\* present is answered with a 4xx when it looks the email up, and creates no
\* document; a document that is present stays present.
C2_DuplicateEmailIsRejected ==
    [][/\ \A r \in DOMAIN reqs :
            (/\ Steps(r)
             /\ reqs'[r].kind = "postUsers"
             /\ reqs'[r].email.tag # "other"
             /\ reqs[r].pc \in {"idle", "findOne"}
             /\ \E i \in 1..Len(users) :
                    Normal(users[i].email) = Normal(Given(reqs'[r])))
            => /\ users' = users
               /\ reqs[r].pc = "idle" => reqs'[r].pc = "findOne"
               /\ reqs[r].pc = "findOne" =>
                    /\ reqs'[r].pc = "done"
                    /\ IsClientError(reqs'[r].status)
       /\ Len(users') >= Len(users)
       /\ SubSeq(users', 1, Len(users)) = users
    ]_vars

\* C2 witness: a POST whose email differs from a stored one only by case or
\* surrounding whitespace was answered 400.
C2_Witness ==
    \E r \in DOMAIN reqs :
        /\ reqs[r].kind = "postUsers"
        /\ reqs[r].pc = "done"
        /\ reqs[r].status = 400
        /\ ~Held(Given(reqs[r]))
        /\ Held(Normal(Given(reqs[r])))

\* C3: in every reachable state no two user documents share an email, however
\* the lookups and inserts of POST /api/users requests interleave.
C3_EmailsAreUnique ==
    \A i, j \in 1..Len(users) : users[i].email = users[j].email => i = j

\* C4: POST /api/posts with title, body and the identifier of an existing user
\* succeeds and adds exactly one post, which references that user; with a
\* well-formed identifier that matches no user it is answered 404 and the posts
\* collection is unchanged.
C4_CreatePost ==
    [][\A r \in DOMAIN reqs :
        (/\ Steps(r)
         /\ reqs'[r].kind = "postPosts"
         /\ reqs'[r].userId.tag = "hex"
         /\ ~Falsy(reqs'[r].title)
         /\ ~Falsy(reqs'[r].body))
        => LET uid == reqs'[r].userId.val
               known == \E i \in 1..Len(users) : users[i]._id = uid
           IN  /\ reqs[r].pc = "idle" => reqs'[r].pc = "findOne" /\ posts' = posts
               /\ reqs[r].pc = "findOne" /\ known =>
                    reqs'[r].pc = "insertOne" /\ posts' = posts
               /\ reqs[r].pc = "findOne" /\ ~known =>
                    /\ reqs'[r].pc = "done"
                    /\ reqs'[r].status = 404
                    /\ posts' = posts
               /\ reqs[r].pc = "insertOne" =>
                    /\ known
                    /\ reqs'[r].pc = "done"
                    /\ reqs'[r].status = 200
                    /\ Len(posts') = Len(posts) + 1
                    /\ SubSeq(posts', 1, Len(posts)) = posts
                    /\ posts'[Len(posts')] =
                          [_id |-> reqs'[r].rid, title |-> reqs[r].title,
                           body |-> reqs[r].body, userId |-> uid]
                    /\ reqs'[r].rid \notin Ids(posts)
    ]_vars

\* C4 witness: a POST /api/posts was answered 200 and its post references an
\* existing user.
C4_Witness ==
    \E r \in DOMAIN reqs :
        /\ reqs[r].kind = "postPosts"
        /\ reqs[r].pc = "done"
        /\ reqs[r].status = 200
        /\ \E i \in 1..Len(posts) :
            /\ posts[i]._id = reqs[r].rid
            /\ posts[i].userId = reqs[r].userId.val
            /\ posts[i].userId \in Ids(users)

\* C5: DELETE /api/posts/:id with the identifier of an existing post removes
\* exactly that post and leaves every other post and every user unchanged;
\* with a well-formed identifier that matches no post it is answered 404 and
\* the database is unchanged.
C5_DeletePost ==
    [][\A r \in DOMAIN reqs :
        (/\ Steps(r)
         /\ reqs[r].kind = "deletePost"
         /\ reqs[r].pc = "deleteOne")
        => LET id == reqs[r].postId.val
           IN  /\ reqs'[r].pc = "done"
               /\ users' = users
               /\ \A i \in 1..Len(posts) :
                    posts[i]._id = id =>
                        /\ reqs'[r].status = 200
                        /\ posts' = SubSeq(posts, 1, i - 1) \o SubSeq(posts, i + 1, Len(posts))
               /\ (\A i \in 1..Len(posts) : posts[i]._id # id) =>
                        /\ reqs'[r].status = 404
                        /\ posts' = posts
    ]_vars

\* C5 witness: a DELETE was answered 200 although other posts existed, and they
\* are still there.
C5_Witness ==
    \E r \in DOMAIN reqs :
        /\ reqs[r].kind = "deletePost"
        /\ reqs[r].pc = "done"
        /\ reqs[r].status = 200
        /\ reqs[r].postId.val \notin Ids(posts)
        /\ Len(posts) >= 2

\* C6: PATCH /api/posts/:id/assign changes at most the userId of the post named
\* by :id; that post's title and body, every other post and every user document
\* are unchanged by every step of the request, whether it succeeds or fails.
C6_AssignFrame ==
    [][\A r \in DOMAIN reqs :
        (Steps(r) /\ reqs'[r].kind = "assign")
        => /\ users' = users
           /\ Len(posts') = Len(posts)
           /\ \A i \in 1..Len(posts) :
                \/ posts'[i] = posts[i]
                \/ /\ reqs[r].postId.tag = "hex"
                   /\ posts[i]._id = reqs[r].postId.val
                   /\ posts'[i] = [posts[i] EXCEPT !.userId = posts'[i].userId]
    ]_vars

\* C6 witness: an assign was answered 200, it changed its post's userId, and
\* there are other posts.
C6_Witness ==
    \E r \in DOMAIN reqs :
        /\ reqs[r].kind = "assign"
        /\ reqs[r].pc = "done"
        /\ reqs[r].status = 200
        /\ Len(posts) >= 2
        /\ \E i \in 1..Len(posts) :
            /\ posts[i]._id = reqs[r].postId.val
            /\ posts[i].userId = reqs[r].userId.val

\* C7: started against four users and no posts, every GET /api/posts the server
\* answers returns exactly the four seeded posts, the i-th referencing and
\* joined with the i-th user.
C7_GetPostsSeesSeededPosts ==
    (db0.users = NumSamples /\ db0.posts = 0 /\ seedPc # "failed")
    => \A r \in DOMAIN reqs :
        (/\ reqs[r].kind = "getPosts"
         /\ reqs[r].pc = "done"
         /\ \A q \in DOMAIN reqs : reqs[q].kind \in {"none", "getPosts"})
        => /\ reqs[r].status = 200
           /\ Len(reqs[r].list) = NumSamples
           /\ \A i \in 1..Len(reqs[r].list) :
                /\ reqs[r].list[i].post.title = SampleTitles[i]
                /\ reqs[r].list[i].post.userId = users[i]._id
                /\ reqs[r].list[i].user = users[i]

\* a request that fails validation: a required field is missing or an
\* identifier is malformed
FailsValidation(rec) ==
    \/ rec.kind = "postUsers" /\ rec.email.tag = "undefined"
    \/ rec.kind = "postPosts" /\
         (rec.userId.tag # "hex" \/ Falsy(rec.title) \/ Falsy(rec.body))
    \/ rec.kind = "deletePost" /\ rec.postId.tag # "hex"
    \/ rec.kind = "assign" /\ (rec.userId.tag # "hex" \/ rec.postId.tag # "hex")

\* C8: every request that fails validation is answered with a 4xx and changes
\* nothing in the database.
C8_ValidationFailureIs4xx ==
    [][\A r \in DOMAIN reqs :
        (Steps(r) /\ FailsValidation(reqs'[r]))
        => /\ users' = users
           /\ posts' = posts
           /\ reqs'[r].pc = "done" => IsClientError(reqs'[r].status)
    ]_vars

(***************************************************************************)
(* Properties of the demo run.                                             *)
(***************************************************************************)
Logged(entry) == \E i \in 1..Len(log) : log[i] = entry

Critical == {"connect", "insert"}

NonCritical == {"createIndexes", "aggregate", "geo", "delete"}

\* the fixed sequence of steps after connect and clear; the second class has no
\* geospatial step
FixedOrder(v) ==
    SelectSeq(<<"createIndexes", "insert", "read", "update", "aggregate", "geo",
                "delete", "count">>,
              LAMBDA s : v = 1 \/ s # "geo")

\* the step that follows s in the fixed sequence
Following(v, s) ==
    LET seq == FixedOrder(v)
    IN  seq[1 + CHOOSE i \in 1..Len(seq) : seq[i] = s]

\* C9: a failure of connect or insert aborts the run: the error is logged and
\* rethrown into runDemo's catch, the failed step is the last one executed, and
\* the success message of the run is not reported.
C9_CriticalFailureAborts ==
    \A s \in Critical :
        s \in failed =>
            /\ ran[Len(ran)] = s
            /\ Logged(ErrorOf(s))
            /\ demoPc \in {"catch", "finally", "done"}
            /\ demoPc \in {"finally", "done"} => Logged(ErrorOf("runDemo"))
            /\ ~Logged(SuccessOf("runDemo"))
            /\ ~Logged(SuccessOf("count"))

\* C9 witness: insertMany failed after index creation had succeeded, and the
\* run has ended.
C9_Witness ==
    /\ demoPc = "done"
    /\ failed = {"insert"}
    /\ Len(documents) = 1

\* C10: a failure of index creation, aggregation, the geospatial query or delete
\* is logged and does not abort the run: the step that follows it in the fixed
\* sequence runs next, and a run in which only such steps failed executes every
\* step in order, up to and including the final count.
C10_NonCriticalFailureContinues ==
    /\ \A k \in 1..Len(ran) :
        (ran[k] \in failed /\ ran[k] \in NonCritical) =>
            /\ Logged(ErrorOf(ran[k]))
            /\ IF k < Len(ran)
               THEN ran[k + 1] = Following(variant, ran[k])
               ELSE demoPc = Following(variant, ran[k])
    /\ (demoPc = "done" /\ failed # {} /\ failed \subseteq NonCritical) =>
            /\ ran = <<"connect", "clear">> \o FixedOrder(variant)
            /\ Logged(SuccessOf("count"))
            /\ Logged(SuccessOf("runDemo"))
            /\ ~Logged(ErrorOf("runDemo"))

\* C10 witness: every non-critical step of the first class failed and the run
\* still reached the final count.
C10_Witness ==
    /\ demoPc = "done"
    /\ variant = 1
    /\ failed = NonCritical
    /\ ran[Len(ran)] = "count"

(***************************************************************************)
(* Properties of both entry points.                                        *)
(***************************************************************************)
\* C11: no database operation is issued before the connection is established.
\* Demo: a step other than connect runs, and the collection or its indexes
\* change, only after connect has succeeded.  Server: a seeding query runs, a
\* request handler runs, and users or posts change, only after mongoConnect has
\* resolved and set the collection handles; handlers only once listening.
C11_ConnectionPrecedesOperations ==
    [][/\ (ran' # ran /\ demoPc # "connect") =>
            /\ client = "connected"
            /\ collection
            /\ Len(ran) >= 1
            /\ ran[1] = "connect"
            /\ "connect" \notin failed
       /\ (documents' # documents \/ indexes' # indexes) =>
            client = "connected" /\ collection
       /\ (seedPc' # seedPc /\ seedPc # "connect") => handles
       /\ \A r \in DOMAIN reqs : Steps(r) => handles /\ mainPc = "listening"
       /\ (users' # users \/ posts' # posts) => handles
    ]_vars

\* C11 witness: the server has seeded the posts collection and answered a
\* request, with the handles set.
C11_Witness ==
    /\ handles
    /\ seedPc = "done"
    /\ Len(posts) >= NumSamples
    /\ \E r \in DOMAIN reqs : reqs[r].pc = "done" /\ reqs[r].status = 200

(***************************************************************************)
(* Properties of startup seeding.                                          *)
(***************************************************************************)
\* C12: startup seeding inserts no post or exactly four.  The seed check sends
\* the seeding on exactly when posts is empty, and a non-empty collection ends
\* the seeding with posts unchanged; the user query sends it on to the insert
\* exactly when at least one user exists; the insert appends exactly the four
\* sample posts, the i-th referencing the i-th user the query returned and
\* carrying no reference when the query returned fewer than i users.  No
\* other startup step changes posts.
C12_SeedingInsertsNoneOrFour ==
    [][seedPc' # seedPc =>
        /\ seedPc = "connect" => posts' = posts
        /\ seedPc = "count" =>
            /\ posts' = posts
            /\ seedPc' = IF Len(posts) = 0 THEN "find" ELSE "done"
        /\ seedPc = "find" =>
            /\ posts' = posts
            /\ userList' = users
            /\ seedPc' = IF Len(users) >= 1 THEN "insert" ELSE "done"
        /\ seedPc = "insert" =>
            /\ seedPc' = "done"
            /\ Len(userList) >= 1
            /\ Len(posts') = Len(posts) + 4
            /\ SubSeq(posts', 1, Len(posts)) = posts
            /\ \A i \in 1..4 :
                 LET p == posts'[Len(posts) + i]
                 IN  /\ p.title = SampleTitles[i]
                     /\ p.body = SampleBodies[i]
                     /\ p.userId = IF i <= Len(userList) THEN userList[i]._id ELSE NoRef
                     /\ p.userId # NoRef => Has(users, p.userId)
    ]_vars

\* C12 witness: seeding has finished with two users present; the four sample
\* posts are the whole collection, the first two referencing the two users and
\* the last two carrying no reference.
C12_Witness ==
    /\ seedPc = "done"
    /\ Len(userList) = 2
    /\ Len(posts) = 4
    /\ posts[1].userId = userList[1]._id
    /\ posts[2].userId = userList[2]._id
    /\ posts[3].userId = NoRef
    /\ posts[4].userId = NoRef

(***************************************************************************)
(* Properties of the end of the demo run.                                  *)
(***************************************************************************)
\* C13 as stated: every demo run that has ended has closed its client exactly
\* once.
C13_EveryRunClosesOnce ==
    demoPc = "done" => client = "closed" /\ closes = 1

\* C13 amended: every demo run ends with disconnect as its last action.  The
\* client is closed exactly once when the client object was created (also when
\* its connect was rejected) and not at all when new MongoClient itself threw,
\* which leaves no client; nothing is closed twice or before the end, no step
\* runs after the close, a run cannot stop before disconnect, and the run ends
\* normally with the step's error handled by runDemo's catch.
C13_RunEndsWithDisconnect ==
    /\ closes <= 1
    /\ closes = 1 <=> client = "closed"
    /\ client = "closed" => demoPc = "done"
    /\ demoPc # "done" => ENABLED DemoNext
    /\ demoPc = "done" =>
        /\ ~ENABLED DemoNext
        /\ Logged(SuccessOf("runDemo")) # Logged(ErrorOf("runDemo"))
        /\ IF client = "null"
           THEN /\ closes = 0
                /\ ran = <<"connect">>
                /\ failed = {"connect"}
                /\ log[Len(log)] = ErrorOf("runDemo")
           ELSE /\ client = "closed"
                /\ closes = 1
                /\ log[Len(log)] = SuccessOf("disconnect")

\* C13 witness: client.connect() was rejected, so the client object exists
\* without a connection, and the run has ended with that client closed once.
C13_Witness ==
    /\ demoPc = "done"
    /\ failed = {"connect"}
    /\ client = "closed"
    /\ closes = 1

(***************************************************************************)
(* Properties of repeated assignment.                                      *)
(***************************************************************************)
\* the userId of the post with this identifier
UserIdOf(coll, id) == (CHOOSE p \in {coll[i] : i \in 1..Len(coll)} : p._id = id).userId

\* rec is an assign of the same post to the same user as r's, answered 200
SameAssignSucceeded(rec, r) ==
    /\ rec.kind = "assign"
    /\ rec.pc = "done"
    /\ rec.status = 200
    /\ rec.postId = reqs[r].postId
    /\ rec.userId = reqs[r].userId

\* C14: PATCH /api/posts/:id/assign for an existing post and an existing user
\* answers 200 exactly when the post's userId changes.  When the post already
\* references the user the answer is 404 and posts is unchanged; otherwise the
\* answer is 200 and the post references the user afterwards.  Hence once an
\* assign was answered 200, the same assign again is answered 404 and leaves
\* the database as the first one left it.
C14_AssignSucceedsIffChanged ==
    [][\A r \in DOMAIN reqs :
        (/\ Steps(r)
         /\ reqs[r].kind = "assign"
         /\ reqs[r].pc = "updateOne"
         /\ Has(posts, reqs[r].postId.val)
         /\ Has(users, reqs[r].userId.val))
        => LET id == reqs[r].postId.val
               uid == reqs[r].userId.val
           IN  /\ reqs'[r].pc = "done"
               /\ reqs'[r].status = 200 <=> UserIdOf(posts', id) # UserIdOf(posts, id)
               /\ reqs'[r].status = 200 <=> UserIdOf(posts, id) # uid
               /\ reqs'[r].status # 200 => reqs'[r].status = 404 /\ posts' = posts
               /\ UserIdOf(posts', id) = uid
               /\ \A q \in DOMAIN reqs \ {r} :
                    SameAssignSucceeded(reqs[q], r)
                    => reqs'[r].status = 404 /\ posts' = posts /\ users' = users
    ]_vars

\* C14 witness: the same assign of an existing post to an existing user was
\* issued twice; the first was answered 200, the second 404, and the post
\* references the user.
C14_Witness ==
    /\ reqs[1].kind = "assign"
    /\ reqs[1].pc = "done"
    /\ reqs[1].status = 200
    /\ reqs[2].kind = "assign"
    /\ reqs[2].pc = "done"
    /\ reqs[2].status = 404
    /\ reqs[2].postId = reqs[1].postId
    /\ reqs[2].userId = reqs[1].userId
    /\ Has(users, reqs[1].userId.val)
    /\ Has(posts, reqs[1].postId.val)
    /\ UserIdOf(posts, reqs[1].postId.val) = reqs[1].userId.val

====
